---- MODULE Spec2Model ----
(***************************************************************************)
(* TreeRepository (src/src/repository/TreeRepository.ts): closure-table    *)
(* tree queries, in-memory tree assembly and the move of a subtree.        *)
(*                                                                         *)
(* Entities are identified by their generated primary key 1, 2, 3, ...     *)
(* (ClosureCategory.id); Null stands for a NULL parent column / a null     *)
(* `to` argument.                                                          *)
(***************************************************************************)
EXTENDS Integers, Sequences, FiniteSets, TLC

\* ------------------------------------------------------------------ bounds
MaxEntities == 3
MaxMoves == 2

Ids == 1..MaxEntities
Null == 0

VARIABLES
    treeType,   \* metadata.treeType of the repository's entity type
    table,      \* primary keys of the persisted entities
    parent,     \* persisted parent join column, per primary key
    junction,   \* closure junction table: set of <<ancestor, descendant>>
    lastOp,     \* the repository call the caller is awaiting: arguments and result
    tx,         \* the move in flight (step-wise specification only)
    nMoves      \* number of moves made so far

vars == <<treeType, table, parent, junction, lastOp, tx, nMoves>>

\* ------------------------------------------------------------ result values
UnsupportedError == "Supported only in tree entities"
TypeError == "TypeError"
RangeError == "RangeError"
Ok == "ok"

\* ---------------------------------------------------------------- helpers
Min(S) == CHOOSE x \in S : \A y \in S : x <= y

RECURSIVE SortedSeq(_)
SortedSeq(S) == IF S = {} THEN <<>> ELSE <<Min(S)>> \o SortedSeq(S \ {Min(S)})

Range(s) == {s[i] : i \in 1..Len(s)}

\* getMany(): the distinct hydrated entities of the query's rows, by primary key
getMany(qb) == SortedSeq({row[1] : row \in qb})

\* getCount()
getCount(qb) == Cardinality({row[1] : row \in qb})

\* metadata.treeParentRelation: defined only for an entity that declares @TreeParent
treeParentRelation == IF treeType = "none" THEN "undefined" ELSE "parentCategory"

\* ------------------------------------------------------------ query builders
\* a variant that joins on the ancestor column and filters on the descendant column
createDescendantsQueryBuilder_Swapped(entity) ==
    {<<te, tc>> \in table \X junction : tc[1] = te /\ tc[2] = entity}

\* rows <<treeEntity, treeClosure>> of treeEntity INNER JOIN closure
\* ON closure.descendant = treeEntity.id WHERE closure.ancestor = :id
createDescendantsQueryBuilder(entity) ==
    {<<te, tc>> \in table \X junction : tc[2] = te /\ tc[1] = entity}

\* rows of treeEntity INNER JOIN closure
\* ON closure.ancestor = treeEntity.id WHERE closure.descendant = :id
createAncestorsQueryBuilder(entity) ==
    {<<te, tc>> \in table \X junction : tc[1] = te /\ tc[2] = entity}

\* the builders throw unless the entity type is a tree
BuilderThrows == treeType \notin {"closure-table", "nested-set", "materialized-path"}

findDescendants(entity) == getMany(createDescendantsQueryBuilder(entity))
findAncestors(entity) == getMany(createAncestorsQueryBuilder(entity))
countDescendants(entity) == getCount(createDescendantsQueryBuilder(entity))
countAncestors(entity) == getCount(createAncestorsQueryBuilder(entity))

\* rows WHERE parent IS NULL
findRoots == SortedSeq({te \in table : parent[te] = Null})

\* ------------------------------------------------------------ tree assembly
\* one { id, parentId } entry per raw row, in row order
createRelationMaps(entities) ==
    [i \in 1..Len(entities) |-> [id |-> entities[i], parentId |-> parent[entities[i]]]]

IsId(x, entities) == \E i \in 1..Len(entities) : entities[i] = x

\* childIds of one node: the ids of the relation maps whose parentId is the node
childIds(entity, relationMaps) ==
    {relationMaps[i].id : i \in {k \in 1..Len(relationMaps) : relationMaps[k].parentId = entity}}

\* a variant that fills the children of the first node only
buildChildrenEntityTree_OneLevel(entity, entities, relationMaps, depth) ==
    LET kids == SelectSeq(entities, LAMBDA e : e \in childIds(entity, relationMaps))
    IN  [id |-> entity,
         children |-> [i \in 1..Len(kids) |->
                          [id |-> kids[i], children |-> <<>>, overflow |-> FALSE]],
         overflow |-> FALSE]

\* The nested tree under `entity`: its children property, recursively. A call
\* nested deeper than the number of fetched entities revisits an entity, so
\* the recursion never returns: the node is marked overflow (the engine ends
\* it with a RangeError).
RECURSIVE buildChildrenEntityTree(_, _, _, _)
buildChildrenEntityTree(entity, entities, relationMaps, depth) ==
    IF depth > Len(entities)
    THEN [id |-> entity, children |-> <<>>, overflow |-> TRUE]
    ELSE LET kids == SelectSeq(entities, LAMBDA e : e \in childIds(entity, relationMaps))
             subs == [i \in 1..Len(kids) |->
                        buildChildrenEntityTree(kids[i], entities, relationMaps, depth + 1)]
         IN  [id |-> entity, children |-> subs,
              overflow |-> \E i \in 1..Len(subs) : subs[i].overflow]

\* The parent chain above `entity`: <<entity, parent, grandparent, ...>>, each
\* found among the fetched entities; overflow as above.
RECURSIVE buildParentEntityTree(_, _, _, _)
buildParentEntityTree(entity, entities, relationMaps, depth) ==
    IF depth > Len(entities)
    THEN [chain |-> <<entity>>, overflow |-> TRUE]
    ELSE LET found == {k \in 1..Len(relationMaps) : relationMaps[k].id = entity}
             parentEntity == IF found = {} THEN Null
                             ELSE IF IsId(relationMaps[Min(found)].parentId, entities)
                                  THEN relationMaps[Min(found)].parentId
                                  ELSE Null
         IN  IF parentEntity # Null
             THEN LET up == buildParentEntityTree(parentEntity, entities, relationMaps, depth + 1)
                  IN  [chain |-> <<entity>> \o up.chain, overflow |-> up.overflow]
             ELSE [chain |-> <<entity>>, overflow |-> FALSE]

findDescendantsTree(entity) ==
    LET entities == findDescendants(entity)
    IN  buildChildrenEntityTree(entity, entities, createRelationMaps(entities), 0)

findAncestorsTree(entity) ==
    LET entities == findAncestors(entity)
    IN  buildParentEntityTree(entity, entities, createRelationMaps(entities), 0)

findTrees == [i \in 1..Len(findRoots) |-> findDescendantsTree(findRoots[i])]

\* ---------------------------------------------------------------- move plan
newClosuresToInsert(ancestorEntity, entDescendants) ==
    [j \in 1..Len(entDescendants) |-> <<ancestorEntity, entDescendants[j]>>]

\* toAncestors.reduce(...): the closures of each ancestor, ancestor by ancestor
RECURSIVE closuresToInsert(_, _)
closuresToInsert(toAncestors, entDescendants) ==
    IF toAncestors = <<>> THEN <<>>
    ELSE newClosuresToInsert(Head(toAncestors), entDescendants)
         \o closuresToInsert(Tail(toAncestors), entDescendants)

\* a variant without toAncestors.push(entity)
toAncestorsOf_NoSelf(entity, to) ==
    IF to # Null THEN findAncestors(to) ELSE <<>>

\* toAncestors: the ancestors of `to`, then entity itself
toAncestorsOf(entity, to) ==
    (IF to # Null THEN findAncestors(to) ELSE <<>>) \o <<entity>>

moveEntityQueriesBuilder(entity, to) ==
    LET entDescendants == findDescendants(entity)
        toAncestors == toAncestorsOf(entity, to)
    IN  IF treeType = "closure-table"
        THEN << [kind |-> "delete", descendants |-> entDescendants],
                [kind |-> "insert", values |-> closuresToInsert(toAncestors, entDescendants)] >>
        ELSE <<>>

\* ------------------------------------------------------------ query execution
\* DELETE ... WHERE (descendant = :d1) OR (descendant = :d2) ... ; INSERT ... VALUES
\* .where(descendantWhereCondition): the condition is one "(descendant = :d)"
\* per descendant joined by OR; for no descendant it is the empty text, which
\* puts no WHERE clause on the statement, so that every row is matched
whereMatches(descendants, row) ==
    IF descendants = <<>> THEN TRUE ELSE IsId(row[2], descendants)

execute(moveQuery, closure) ==
    IF moveQuery.kind = "delete"
    THEN {row \in closure : ~ whereMatches(moveQuery.descendants, row)}
    ELSE closure \cup Range(moveQuery.values)

\* for (const moveQuery of moveQueries) await moveQuery.execute()
RECURSIVE executeAll(_, _)
executeAll(moveQueries, closure) ==
    IF moveQueries = <<>> THEN closure
    ELSE executeAll(Tail(moveQueries), execute(Head(moveQueries), closure))

\* a variant that never persists the new parent
saveParent_NotPersisted(entity, to, parents) == parents

\* joinColumn.setEntityValue(entity, to); transactionManager.save(entity)
saveParent(entity, to, parents) == [parents EXCEPT ![entity] = to]

\* ---------------------------------------------------------- parent-edge views
\* the entities reachable from the set S by following parent pointers
RECURSIVE UpFrom(_)
UpFrom(S) ==
    LET next == S \cup {parent[x] : x \in {y \in S : parent[y] # Null}}
    IN  IF next = S THEN S ELSE UpFrom(next)

\* the entities reachable from the set S by following child edges
RECURSIVE DownFrom(_)
DownFrom(S) ==
    LET next == S \cup {c \in table : parent[c] \in S}
    IN  IF next = S THEN S ELSE DownFrom(next)

AncestorsOrSelf(e) == UpFrom({e})
DescendantsOrSelf(e) == DownFrom({e})
ProperAncestors(e) == IF parent[e] = Null THEN {} ELSE UpFrom({parent[e]})
ProperDescendants(e) == DownFrom({c \in table : parent[c] = e}) \ {Null}

\* ------------------------------------------------------------------- state
NoTx == [pc |-> "idle"]

Call(op, entity, to, outcome, value) ==
    [op |-> op, entity |-> entity, to |-> to, outcome |-> outcome, value |-> value]

Idle == Call("none", Null, Null, Ok, <<>>)

Init ==
    /\ treeType \in {"closure-table", "none"}
    /\ table = {}
    /\ parent = [e \in Ids |-> Null]
    /\ junction = {}
    /\ lastOp = Idle
    /\ tx = NoTx
    /\ nMoves = 0

\* repository.save(new entity) with parentCategory = p: the next generated id,
\* its parent column, its reflexive closure row and one row per ancestor
Create(p) ==
    /\ lastOp = Idle /\ tx = NoTx
    /\ Cardinality(table) < MaxEntities
    /\ treeParentRelation = "undefined" => p = Null
    /\ LET e == Cardinality(table) + 1
       IN  /\ table' = table \cup {e}
           /\ parent' = [parent EXCEPT ![e] = p]
           /\ junction' = IF treeType = "closure-table"
                          THEN junction \cup {<<e, e>>}
                               \cup (IF p = Null THEN {} ELSE {<<a, e>> : a \in AncestorsOrSelf(p)})
                          ELSE junction
           /\ lastOp' = Call("create", e, p, Ok, <<>>)
    /\ UNCHANGED <<treeType, tx, nMoves>>

Query(call) ==
    /\ lastOp = Idle /\ tx = NoTx
    /\ lastOp' = call
    /\ UNCHANGED <<treeType, table, parent, junction, tx, nMoves>>

FindRoots ==
    Query(IF treeParentRelation = "undefined"
          THEN Call("findRoots", Null, Null, TypeError, <<>>)
          ELSE Call("findRoots", Null, Null, Ok, findRoots))

FindTrees ==
    Query(IF treeParentRelation = "undefined"
          THEN Call("findTrees", Null, Null, TypeError, <<>>)
          ELSE LET trees == findTrees
               IN  IF \E i \in 1..Len(trees) : trees[i].overflow
                   THEN Call("findTrees", Null, Null, RangeError, <<>>)
                   ELSE Call("findTrees", Null, Null, Ok, trees))

FindDescendants(entity) ==
    Query(IF BuilderThrows
          THEN Call("findDescendants", entity, Null, UnsupportedError, <<>>)
          ELSE Call("findDescendants", entity, Null, Ok, findDescendants(entity)))

FindDescendantsTree(entity) ==
    Query(IF BuilderThrows
          THEN Call("findDescendantsTree", entity, Null, UnsupportedError, <<>>)
          ELSE LET tree == findDescendantsTree(entity)
               IN  IF tree.overflow
                   THEN Call("findDescendantsTree", entity, Null, RangeError, <<>>)
                   ELSE Call("findDescendantsTree", entity, Null, Ok, tree))

CountDescendants(entity) ==
    Query(IF BuilderThrows
          THEN Call("countDescendants", entity, Null, UnsupportedError, <<>>)
          ELSE Call("countDescendants", entity, Null, Ok, countDescendants(entity)))

FindAncestors(entity) ==
    Query(IF BuilderThrows
          THEN Call("findAncestors", entity, Null, UnsupportedError, <<>>)
          ELSE Call("findAncestors", entity, Null, Ok, findAncestors(entity)))

FindAncestorsTree(entity) ==
    Query(IF BuilderThrows
          THEN Call("findAncestorsTree", entity, Null, UnsupportedError, <<>>)
          ELSE LET tree == findAncestorsTree(entity)
               IN  IF tree.overflow
                   THEN Call("findAncestorsTree", entity, Null, RangeError, <<>>)
                   ELSE Call("findAncestorsTree", entity, Null, Ok, tree))

CountAncestors(entity) ==
    Query(IF BuilderThrows
          THEN Call("countAncestors", entity, Null, UnsupportedError, <<>>)
          ELSE Call("countAncestors", entity, Null, Ok, countAncestors(entity)))

MoveEntityQueriesBuilder(entity, to) ==
    Query(IF BuilderThrows
          THEN Call("moveEntityQueriesBuilder", entity, to, UnsupportedError, <<>>)
          ELSE Call("moveEntityQueriesBuilder", entity, to, Ok,
                    moveEntityQueriesBuilder(entity, to)))

\* move(entity, to), run to completion with no failure of the database
Move(entity, to) ==
    IF BuilderThrows
    THEN Query(Call("move", entity, to, UnsupportedError, <<>>))
    ELSE /\ lastOp = Idle /\ tx = NoTx
         /\ nMoves < MaxMoves
         /\ nMoves' = nMoves + 1
         /\ junction' = executeAll(moveEntityQueriesBuilder(entity, to), junction)
         /\ parent' = saveParent(entity, to, parent)
         /\ lastOp' = Call("move", entity, to, Ok, <<>>)
         /\ UNCHANGED <<treeType, table, tx>>

\* the caller takes the awaited result and goes on to its next call
Await ==
    /\ lastOp # Idle
    /\ lastOp' = Idle
    /\ tx' = NoTx
    /\ UNCHANGED <<treeType, table, parent, junction, nMoves>>

Next ==
    \/ Await
    \/ \E p \in table \cup {Null} : Create(p)
    \/ FindRoots
    \/ FindTrees
    \/ \E entity \in table : FindDescendants(entity)
    \/ \E entity \in table : FindDescendantsTree(entity)
    \/ \E entity \in table : CountDescendants(entity)
    \/ \E entity \in table : FindAncestors(entity)
    \/ \E entity \in table : FindAncestorsTree(entity)
    \/ \E entity \in table : CountAncestors(entity)
    \/ \E entity \in table, to \in table \cup {Null} : MoveEntityQueriesBuilder(entity, to)
    \/ \E entity \in table, to \in table \cup {Null} : Move(entity, to)

Spec == Init /\ [][Next]_vars

\* ------------------------------------------------- move, statement by statement
QueryFailedError == "QueryFailedError"

\* the statements of the transaction callback, in order: every move query,
\* then the save of the entity with its parent set to `to`
transactionStatements(moveQueries, entity, to) ==
    moveQueries \o << [kind |-> "save", entity |-> entity, to |-> to] >>

\* a variant in which only the save goes through the transaction manager
usesTransactionRunner_SaveOnly(statement) == statement.kind = "save"

\* whether a statement runs on the transaction's query runner
\* (moveQuery.setQueryRunner(transactionManager.queryRunner), transactionManager.save)
usesTransactionRunner(statement) == TRUE

Database == [junction |-> junction, parent |-> parent]

\* the effect of one statement on the database
apply(statement, db) ==
    IF statement.kind = "save"
    THEN [db EXCEPT !.parent = saveParent(statement.entity, statement.to, db.parent)]
    ELSE [db EXCEPT !.junction = execute(statement, db.junction)]

\* the statements of one transaction, in order
RECURSIVE applyAll(_, _)
applyAll(statements, db) ==
    IF statements = <<>> THEN db
    ELSE applyAll(Tail(statements), apply(Head(statements), db))

\* move(entity, to) up to the start of its transaction: the plan is built from
\* the database as it is now
MovePlan(entity, to) ==
    /\ lastOp = Idle
    /\ tx = NoTx
    /\ IF BuilderThrows
       THEN /\ lastOp' = Call("move", entity, to, UnsupportedError, <<>>)
            /\ UNCHANGED <<tx, nMoves>>
       ELSE /\ nMoves < MaxMoves
            /\ nMoves' = nMoves + 1
            /\ tx' = [pc |-> "planned", entity |-> entity, to |-> to,
                      statements |-> transactionStatements(
                                         moveEntityQueriesBuilder(entity, to), entity, to)]
            /\ UNCHANGED lastOp
    /\ UNCHANGED <<treeType, table, parent, junction>>

\* manager.transaction(...) opens the transaction; `committed` is what a
\* rollback returns to, `before` the database when the transaction began
TxBegin ==
    /\ tx.pc = "planned"
    /\ tx' = [pc |-> "running", entity |-> tx.entity, to |-> tx.to,
              statements |-> tx.statements, i |-> 1,
              committed |-> Database, before |-> Database]
    /\ UNCHANGED <<treeType, table, parent, junction, lastOp, nMoves>>

\* the next statement of the callback succeeds
TxStatement ==
    /\ tx.pc = "running"
    /\ tx.i <= Len(tx.statements)
    /\ LET statement == tx.statements[tx.i]
           db == apply(statement, Database)
       IN  /\ junction' = db.junction
           /\ parent' = db.parent
           /\ tx' = [tx EXCEPT !.i = tx.i + 1,
                               !.committed = IF usesTransactionRunner(statement)
                                             THEN tx.committed
                                             ELSE apply(statement, tx.committed)]
    /\ UNCHANGED <<treeType, table, lastOp, nMoves>>

\* the next statement (or the commit) fails: the transaction manager rolls back
\* and the error reaches the caller
TxFail ==
    /\ tx.pc = "running"
    /\ junction' = tx.committed.junction
    /\ parent' = tx.committed.parent
    /\ tx' = [pc |-> "done", statements |-> tx.statements, ran |-> tx.i - 1,
              before |-> tx.before]
    /\ lastOp' = Call("move", tx.entity, tx.to, QueryFailedError, <<>>)
    /\ UNCHANGED <<treeType, table, nMoves>>

\* the callback returned: the transaction commits and move resolves
TxCommit ==
    /\ tx.pc = "running"
    /\ tx.i > Len(tx.statements)
    /\ tx' = [pc |-> "done", statements |-> tx.statements, ran |-> tx.i - 1,
              before |-> tx.before]
    /\ lastOp' = Call("move", tx.entity, tx.to, Ok, <<>>)
    /\ UNCHANGED <<treeType, table, parent, junction, nMoves>>

NextTx ==
    \/ Await
    \/ \E p \in table \cup {Null} : Create(p)
    \/ \E entity \in table, to \in table \cup {Null} : MovePlan(entity, to)
    \/ TxBegin
    \/ TxStatement
    \/ TxFail
    \/ TxCommit

SpecTx == Init /\ [][NextTx]_vars

\* --------------------------------------------------------- two moves at once
\* Two callers call move at the same time. Each awaits its own plan, built
\* from the database as it is at that moment, and then runs its transaction,
\* which the database executes atomically.
Callers == {1, 2}

ConcurrentBegin(e1, t1, e2, t2) ==
    /\ lastOp = Idle /\ tx = NoTx
    /\ ~ BuilderThrows
    /\ nMoves < MaxMoves
    /\ nMoves' = MaxMoves
    /\ tx' = [pc |-> "concurrent", before |-> Database,
              callers |-> << [pc |-> "called", entity |-> e1, to |-> t1, statements |-> <<>>],
                             [pc |-> "called", entity |-> e2, to |-> t2, statements |-> <<>>] >>]
    /\ UNCHANGED <<treeType, table, parent, junction, lastOp>>

\* await this.moveEntityQueriesBuilder(...)
CallerPlan(c) ==
    /\ tx.pc = "concurrent"
    /\ tx.callers[c].pc = "called"
    /\ LET entity == tx.callers[c].entity
           to == tx.callers[c].to
       IN  tx' = [tx EXCEPT !.callers[c].pc = "planned",
                            !.callers[c].statements =
                                transactionStatements(moveEntityQueriesBuilder(entity, to),
                                                      entity, to)]
    /\ UNCHANGED <<treeType, table, parent, junction, lastOp, nMoves>>

\* await this.manager.transaction(...): all statements of the caller, atomically
CallerTransaction(c) ==
    /\ tx.pc = "concurrent"
    /\ tx.callers[c].pc = "planned"
    /\ LET db == applyAll(tx.callers[c].statements, Database)
       IN  /\ junction' = db.junction
           /\ parent' = db.parent
    /\ tx' = [tx EXCEPT !.callers[c].pc = "done"]
    /\ UNCHANGED <<treeType, table, lastOp, nMoves>>

BothDone == tx.pc = "concurrent" /\ \A c \in Callers : tx.callers[c].pc = "done"

\* both promises resolved
ConcurrentEnd ==
    /\ BothDone
    /\ tx' = NoTx
    /\ UNCHANGED <<treeType, table, parent, junction, lastOp, nMoves>>

NextConc ==
    \/ Await
    \/ \E p \in table \cup {Null} : Create(p)
    \/ \E entity \in table, to \in table \cup {Null} : Move(entity, to)
    \/ \E e1, e2 \in table, t1, t2 \in table \cup {Null} : ConcurrentBegin(e1, t1, e2, t2)
    \/ \E c \in Callers : CallerPlan(c)
    \/ \E c \in Callers : CallerTransaction(c)
    \/ ConcurrentEnd

SpecConc == Init /\ [][NextConc]_vars

\* ------------------------------------------------------------ shared notions
\* the junction is exactly the ancestor-or-self relation of the parent pointers
CorrectlyBuilt ==
    junction = {<<x, y>> \in table \X table : x \in AncestorsOrSelf(y)}

\* no entity is reachable from itself by one or more parent steps
Acyclic == \A e \in table : e \notin ProperAncestors(e)

NoDuplicates(s) == \A i, j \in 1..Len(s) : s[i] = s[j] => i = j

\* the ids below a tree node, by recursively flattening the children collections
RECURSIVE Flatten(_), FlattenAll(_)
FlattenAll(subs) ==
    IF subs = <<>> THEN <<>>
    ELSE <<Head(subs).id>> \o Flatten(Head(subs)) \o FlattenAll(Tail(subs))
Flatten(tree) == FlattenAll(tree.children)

Returned(op) == lastOp.op = op /\ lastOp.outcome = Ok

\* ------------------------------------------------------------------ claims

\* C1 (as claimed): after any sequence of successful moves from a correctly
\* built tree, a junction row (X, Y) exists iff X is Y or an ancestor of Y by
\* the parent pointers.
C1_ClosureInvariant == treeType = "closure-table" => CorrectlyBuilt

C3_InternalRowsPreserved ==
    [][(lastOp'.op = "move" /\ lastOp'.outcome = Ok) =>
          \A X \in ProperDescendants(lastOp'.entity) \ {lastOp'.entity} :
              \A Y \in DescendantsOrSelf(X) :
                  <<X, Y>> \in junction => <<X, Y>> \in junction']_vars

\* C4 (as claimed): findDescendants(E) is the set reachable from E by child
\* edges without E itself, findAncestors(E) the set reachable by parent edges
\* without E itself.
C4_FindExcludesSelf ==
    (treeType = "closure-table" /\ CorrectlyBuilt) =>
        /\ Returned("findDescendants") =>
               Range(lastOp.value) = DescendantsOrSelf(lastOp.entity) \ {lastOp.entity}
        /\ Returned("findAncestors") =>
               Range(lastOp.value) = AncestorsOrSelf(lastOp.entity) \ {lastOp.entity}

\* C4 (amended): on a correctly built closure-table tree findDescendants(E) is
\* exactly E together with everything reachable from E by child edges, and
\* findAncestors(E) exactly E together with everything reachable by parent
\* edges, each entity once.
C4_FindIncludesSelf ==
    (treeType = "closure-table" /\ CorrectlyBuilt) =>
        /\ Returned("findDescendants") =>
               /\ Range(lastOp.value) = DescendantsOrSelf(lastOp.entity)
               /\ NoDuplicates(lastOp.value)
        /\ Returned("findAncestors") =>
               /\ Range(lastOp.value) = AncestorsOrSelf(lastOp.entity)
               /\ NoDuplicates(lastOp.value)

\* C4 witness: after a move, an entity with a child and a grandchild is asked
\* for its descendants
C4_Witness ==
    /\ Returned("findDescendants")
    /\ CorrectlyBuilt /\ nMoves > 0
    /\ Len(lastOp.value) = 3
    /\ \E c \in table : parent[c] \notin {Null, lastOp.entity}

\* C5 (as claimed): the recursive flattening of findDescendantsTree(E) equals
\* findDescendants(E), no duplicate, no omission.
C5_TreeFlattensToDescendants ==
    (treeType = "closure-table" /\ CorrectlyBuilt /\ Acyclic
        /\ lastOp.op = "findDescendantsTree") =>
        /\ lastOp.outcome = Ok
        /\ lastOp.value.id = lastOp.entity
        /\ NoDuplicates(Flatten(lastOp.value))
        /\ Range(Flatten(lastOp.value)) = Range(findDescendants(lastOp.entity))

\* C5 (amended): on a correctly built acyclic closure-table tree
\* findDescendantsTree(E) returns E with children whose recursive flattening
\* is findDescendants(E) without E itself, no duplicate, no omission.
C5_TreeFlattensToProperDescendants ==
    (treeType = "closure-table" /\ CorrectlyBuilt /\ Acyclic
        /\ lastOp.op = "findDescendantsTree") =>
        /\ lastOp.outcome = Ok
        /\ lastOp.value.id = lastOp.entity
        /\ NoDuplicates(Flatten(lastOp.value))
        /\ Range(Flatten(lastOp.value)) = Range(findDescendants(lastOp.entity)) \ {lastOp.entity}

\* C5 witness: a returned tree two levels deep
C5_Witness ==
    /\ Returned("findDescendantsTree")
    /\ CorrectlyBuilt /\ Acyclic
    /\ Len(lastOp.value.children) = 1
    /\ Len(lastOp.value.children[1].children) = 1

\* C6: findRoots() follows the persisted parent pointer: a step that creates an
\* entity without a parent or moves one to null adds it to findRoots(), a step
\* that creates it with a parent or moves it under an entity removes it, and
\* no step changes whether any other entity is returned.
C6_RootsFollowParent ==
    [][treeType = "closure-table" =>
          LET before == Range(findRoots)
              after == Range(findRoots')
              e == lastOp'.entity
          IN  IF lastOp'.op \in {"create", "move"} /\ lastOp'.outcome = Ok
              THEN after = (before \ {e}) \cup (IF lastOp'.to = Null THEN {e} ELSE {})
              ELSE after = before]_vars

\* C6 witness: an entity created under a parent has been moved to null and is
\* a root
C6_Witness ==
    /\ treeType = "closure-table"
    /\ Returned("move") /\ lastOp.to = Null /\ lastOp.entity > 1
    /\ lastOp.entity \in Range(findRoots)
    /\ \E c \in table : parent[c] # Null

\* C8 (as claimed): on an entity type not declared as a tree every tree
\* operation fails with 'Supported only in tree entities'.
C8_NonTreeUnsupported ==
    (treeType = "none" /\ lastOp.op \notin {"none", "create"}) =>
        lastOp.outcome = UnsupportedError

\* C9 (as claimed): after any sequence of moves the parent pointers are acyclic.
C9_ParentsAcyclic == Acyclic

\* C10 (as claimed): the assembly of findDescendantsTree(E) finishes, and the
\* assembly of findAncestorsTree(E) finishes at the first node that has no
\* matching parent among the fetched entities.
C10_AssemblyFinishes ==
    treeType = "closure-table" =>
        /\ lastOp.op = "findDescendantsTree" => lastOp.outcome = Ok
        /\ lastOp.op = "findAncestorsTree" =>
               /\ lastOp.outcome = Ok
               /\ LET chain == lastOp.value.chain
                      fetched == Range(findAncestors(lastOp.entity))
                  IN  /\ chain[1] = lastOp.entity
                      /\ \A i \in 1..(Len(chain) - 1) : chain[i + 1] = parent[chain[i]]
                      /\ parent[chain[Len(chain)]] \notin fetched

\* C7: move is all-or-nothing on persisted state: when it resolves, the delete,
\* the insert and the parent update have all taken effect on the database the
\* transaction began with; when a statement or the commit fails, the junction
\* table and the parent column are as they were and the caller gets the error.
C7_AllOrNothing ==
    (lastOp.op = "move" /\ tx.pc = "done") =>
        \/ /\ lastOp.outcome = Ok
           /\ Database = applyAll(tx.statements, tx.before)
        \/ /\ lastOp.outcome = QueryFailedError
           /\ Database = tx.before

\* C7 witness: a move of an entity with a descendant failed after its delete
\* and its insert had run inside the transaction, and nothing changed
C7_Witness ==
    /\ lastOp.op = "move" /\ lastOp.outcome = QueryFailedError
    /\ tx.pc = "done" /\ tx.ran = 2
    /\ Database = tx.before
    /\ apply(tx.statements[1], tx.before) # tx.before
    /\ applyAll(tx.statements, tx.before) # tx.before

\* C11 (as claimed): the delete of a move plan for (entity, to) leaves
\* unchanged every junction row whose descendant is not a member of
\* findDescendants(entity), whatever the size of findDescendants(entity).
C11_DeleteKeepsOtherRows ==
    [][(tx.pc = "running" /\ tx.i = 1 /\ tx'.pc = "running" /\ tx'.i = 2
          /\ tx.statements[1].kind = "delete") =>
          \A row \in junction :
              row[2] \notin Range(findDescendants(tx.entity)) => row \in junction']_vars

\* ---- one move after the other, computed on a given database
descendantsIn(db, entity) == SortedSeq({d \in table : <<entity, d>> \in db.junction})
ancestorsIn(db, entity) == SortedSeq({a \in table : <<a, entity>> \in db.junction})

planIn(db, entity, to) ==
    LET entDescendants == descendantsIn(db, entity)
        toAncestors == (IF to # Null THEN ancestorsIn(db, to) ELSE <<>>) \o <<entity>>
    IN  << [kind |-> "delete", descendants |-> entDescendants],
           [kind |-> "insert", values |-> closuresToInsert(toAncestors, entDescendants)] >>

moveOn(db, entity, to) ==
    applyAll(transactionStatements(planIn(db, entity, to), entity, to), db)

RECURSIVE DownFromIn(_, _)
DownFromIn(db, S) ==
    LET next == S \cup {c \in table : db.parent[c] \in S}
    IN  IF next = S THEN S ELSE DownFromIn(db, next)

\* the subtree of e: e and what is below it by the parent pointers, together
\* with what findDescendants(e) returns
subtreeIn(db, e) == DownFromIn(db, {e}) \cup Range(descendantsIn(db, e))

\* the two moves are of disjoint subtrees, each destination outside the other's
Independent(db, e1, t1, e2, t2) ==
    /\ subtreeIn(db, e1) \cap subtreeIn(db, e2) = {}
    /\ t1 \notin subtreeIn(db, e2)
    /\ t2 \notin subtreeIn(db, e1)

\* C12 (as claimed): two concurrent moves of disjoint subtrees, each planned
\* before its own atomic transaction and each destination outside the other
\* subtree, leave the junction table and the parent pointers as the two moves
\* run one after the other leave them, in either order.
C12_ConcurrentEqualsSequential ==
    BothDone =>
        LET e1 == tx.callers[1].entity
            t1 == tx.callers[1].to
            e2 == tx.callers[2].entity
            t2 == tx.callers[2].to
        IN  Independent(tx.before, e1, t1, e2, t2) =>
                /\ Database = moveOn(moveOn(tx.before, e1, t1), e2, t2)
                /\ Database = moveOn(moveOn(tx.before, e2, t2), e1, t1)

====
